---- MODULE Spec2Model ----
(***************************************************************************)
(* A model of the edge template engine's utils module                      *)
(* (src/src/utils/index.ts) and of the compiled each-tag template          *)
(* (src/fixtures/each-tag/compiled.js).                                    *)
(*                                                                         *)
(* Four specifications share the module:                                   *)
(*   SpecMerge  - mergeSections over a store of lexer tokens               *)
(*   SpecArgs   - parseAsKeyValuePair / parseSequenceExpression            *)
(*   SpecPath   - extractDiskAndTemplateName                               *)
(*   SpecFrames - the compiled each-loop run against a frame stack         *)
(*                                                                         *)
(* Text is a sequence of one-character strings, so that split, trim and    *)
(* replace are computed character by character as the code computes them.  *)
(***************************************************************************)
EXTENDS Integers, Sequences, FiniteSets, TLC

VARIABLES
    \* ---- mergeSections ----
    base,        \* IToken[]: the base template's top-level tokens (objects)
    extended,    \* IToken[]: the extending template's top-level tokens (objects)
    extended0,   \* history: the extended tokens as the lexer produced them
    merged,      \* the array returned by the last call: references to tokens
    firstMerged, \* history: the tokens the first call returned, as then seen
    calls,       \* number of mergeSections calls made
    \* ---- parseAsKeyValuePair / parseSequenceExpression ----
    filename,       \* parser.options.filename
    expression,     \* the expression object handed to parseSequenceExpression
    expression0,    \* history: that expression as the parser produced it
    seqResult,      \* what the last parseSequenceExpression call returned
    firstSeqResult, \* history: what the first call returned
    seqCalls,       \* number of parseSequenceExpression calls made
    pairCall,       \* the last parseAsKeyValuePair call: arguments and outcome
    \* ---- extractDiskAndTemplateName ----
    templatePath,   \* the reference handed to extractDiskAndTemplateName
    extracted,      \* what the call returned
    \* ---- compiled each-tag template ----
    frames,      \* ctx: the frame stack, root frame first
    out,         \* the template function's local `out`
    pc,          \* position in the template function
    loopIdx,     \* ctx.loop: index of the element being visited
    entryDepth   \* history: frame-stack depth when the template was entered

mergeVars == <<base, extended, extended0, merged, firstMerged, calls>>
argVars   == <<filename, expression, expression0, seqResult, firstSeqResult,
               seqCalls, pairCall>>
pathVars  == <<templatePath, extracted>>
frameVars == <<frames, out, pc, loopIdx, entryDepth>>

vars == <<mergeVars, argVars, pathVars, frameVars>>

\* the variables of the components a specification does not exercise
IdleMerge ==
    /\ base = <<>> /\ extended = <<>> /\ extended0 = <<>>
    /\ merged = <<>> /\ firstMerged = <<>> /\ calls = 0
IdleArgs ==
    /\ filename = "" /\ expression = <<>> /\ expression0 = <<>>
    /\ seqResult = <<>> /\ firstSeqResult = <<>> /\ seqCalls = 0
    /\ pairCall = <<>>
IdlePath ==
    /\ templatePath = <<>> /\ extracted = <<>>
IdleFrames ==
    /\ frames = <<>> /\ out = <<>> /\ pc = "idle" /\ loopIdx = 0
    /\ entryDepth = 0

(***************************************************************************)
(* Bounds                                                                  *)
(***************************************************************************)
MaxBase  == 2   \* top-level tokens in the base template
MaxExt   == 2   \* top-level tokens in the extending template
MaxCalls == 2   \* successive mergeSections calls on the same token arrays

(***************************************************************************)
(* Generic helpers                                                         *)
(***************************************************************************)
SeqsUpTo(S, n) == UNION {[1..k -> S] : k \in 0..n}

Range(s) == {s[i] : i \in 1..Len(s)}

(***************************************************************************)
(* Lexer tokens (edge-lexer Contracts, as used by isBlock/mergeSections)   *)
(***************************************************************************)
\* TagTypes.TAG / TagTypes.ETAG and a non-tag token kind
TagTypes == [TAG |-> "tag", ETAG |-> "e__tag"]

Token(type, name, jsArg, children, file) ==
    [type |-> type, name |-> name, jsArg |-> jsArg, children |-> children,
     filename |-> file]

RawToken(text, file) == Token("raw", "", text, <<>>, file)
TagToken(name, jsArg, children, file) ==
    Token(TagTypes.TAG, name, jsArg, children, file)

LayoutFile == "layout.edge"
ChildFile  == "child.edge"

\* section identifiers as written between the parentheses of @section(...):
\* quoted names, possibly padded with whitespace
ArgA       == <<"'", "a", "'">>
ArgAPadded == <<" ", "'", "a", "'", " ">>
ArgB       == <<"'", "b", "'">>

\* children of base sections
BaseRaw   == RawToken(<<"r">>, LayoutFile)
BaseSet   == TagToken("set", <<"m">>, <<>>, LayoutFile)
BaseSuper == TagToken("super", <<>>, <<>>, LayoutFile)
\* children of extended sections
ExtRaw    == RawToken(<<"r">>, ChildFile)
ExtSet    == TagToken("set", <<"n">>, <<>>, ChildFile)
ExtSuper  == TagToken("super", <<>>, <<>>, ChildFile)

BaseTokens ==
    { RawToken(<<"t">>, LayoutFile),
      TagToken("set", <<"x">>, <<>>, LayoutFile),
      TagToken("section", ArgA, <<BaseRaw>>, LayoutFile),
      TagToken("section", ArgAPadded, <<BaseSet, BaseRaw>>, LayoutFile),
      TagToken("section", ArgA, <<BaseSuper, BaseRaw>>, LayoutFile),
      TagToken("section", ArgB, <<BaseRaw>>, LayoutFile) }

ExtTokens ==
    { RawToken(<<"t">>, ChildFile),
      TagToken("set", <<"x">>, <<>>, ChildFile),
      TagToken("set", <<"y">>, <<>>, ChildFile),
      TagToken("section", ArgA, <<ExtRaw>>, ChildFile),
      TagToken("section", ArgA, <<>>, ChildFile),
      TagToken("section", ArgA, <<ExtSet>>, ChildFile),
      TagToken("section", ArgAPadded, <<ExtSuper, ExtRaw>>, ChildFile),
      TagToken("section", ArgA, <<ExtSuper, ExtSet>>, ChildFile),
      TagToken("section", ArgB, <<ExtRaw>>, ChildFile),
      Token(TagTypes.ETAG, "section", ArgB, <<ExtSuper>>, ChildFile) }

\* a reference to a token object: which array it lives in, and where
BaseRef(i) == <<"base", i>>
ExtRef(j)  == <<"extended", j>>

\* String.prototype.trim on a character sequence
IsSpace(c) == c = " "

RECURSIVE TrimStart(_)
TrimStart(s) ==
    IF s = <<>> THEN <<>>
    ELSE IF IsSpace(Head(s)) THEN TrimStart(Tail(s)) ELSE s

RECURSIVE TrimEnd(_)
TrimEnd(s) ==
    IF s = <<>> THEN <<>>
    ELSE IF IsSpace(s[Len(s)]) THEN TrimEnd(SubSeq(s, 1, Len(s) - 1)) ELSE s

Trim(s) == TrimEnd(TrimStart(s))

(***************************************************************************)
(* isBlock, hasChildSuper                                                  *)
(***************************************************************************)
isBlockAnyName(token, name) ==
    token.type = TagTypes.TAG \/ token.type = TagTypes.ETAG

isBlock(token, name) ==
    IF token.type = TagTypes.TAG \/ token.type = TagTypes.ETAG
    THEN token.name = name
    ELSE FALSE

hasChildSuper(token) ==
    IF Len(token.children) = 0 THEN FALSE
    ELSE isBlock(token.children[1], "super")

(***************************************************************************)
(* mergeSections                                                           *)
(***************************************************************************)
\* sections[key] = node: a later node with the same key replaces an earlier one
SetSectionKeepFirst(sections, key, j) ==
    IF key \in DOMAIN sections THEN sections
    ELSE [k \in DOMAIN sections \cup {key} |-> IF k = key THEN j ELSE sections[k]]

SetSection(sections, key, j) ==
    [k \in DOMAIN sections \cup {key} |-> IF k = key THEN j ELSE sections[k]]

\* the key a section node is filed and looked up under
SectionKey(node) == Trim(node.jsArg)

\* extended.filter(isBlock 'section').reduce(...): identifier -> index of the
\* extended token filed under it, scanning indices 1..n in order
RECURSIVE ExtendedSectionsUpTo(_, _)
ExtendedSectionsUpTo(ext, n) ==
    IF n = 0 THEN <<>>
    ELSE LET sections == ExtendedSectionsUpTo(ext, n - 1)
         IN  IF isBlock(ext[n], "section")
             THEN SetSection(sections, SectionKey(ext[n]), n)
             ELSE sections

ExtendedSections(ext) == ExtendedSectionsUpTo(ext, Len(ext))

\* extended.filter(isBlock 'set'), as references in original order
RECURSIVE ExtendedSetCallsUpTo(_, _)
ExtendedSetCallsUpTo(ext, n) ==
    IF n = 0 THEN <<>>
    ELSE ExtendedSetCallsUpTo(ext, n - 1)
         \o (IF isBlock(ext[n], "set") THEN <<ExtRef(n)>> ELSE <<>>)

ExtendedSetCalls(ext) == ExtendedSetCallsUpTo(ext, Len(ext))

\* extendedNode.children = node.children.concat(extendedNode.children)
ConcatChildren(node, extendedNode) ==
    node.children \o extendedNode.children

\* the value the map callback returns once an extended node was found
ReplacedByKeepBase(i, j) == BaseRef(i)

ReplacedBy(i, j) == ExtRef(j)

\* base.map(callback) over indices 1..n: the callback runs in index order and
\* may assign extendedNode.children, so the extended store is threaded through.
\* sections holds references taken before the map started.
RECURSIVE MapBase(_, _, _, _)
MapBase(b, ext, sections, n) ==
    IF n = 0 THEN [nodes |-> <<>>, ext |-> ext]
    ELSE
      LET prev == MapBase(b, ext, sections, n - 1)
          node == b[n]
      IN  IF ~isBlock(node, "section")
          THEN [nodes |-> Append(prev.nodes, BaseRef(n)), ext |-> prev.ext]
          ELSE IF SectionKey(node) \notin DOMAIN sections
          THEN [nodes |-> Append(prev.nodes, BaseRef(n)), ext |-> prev.ext]
          ELSE
            LET j == sections[SectionKey(node)]
                extendedNode == prev.ext[j]
            IN  IF hasChildSuper(extendedNode)
                THEN [nodes |-> Append(prev.nodes, ReplacedBy(n, j)),
                      ext   |-> [prev.ext EXCEPT ![j].children =
                                    ConcatChildren(node, extendedNode)]]
                ELSE [nodes |-> Append(prev.nodes, ReplacedBy(n, j)),
                      ext   |-> prev.ext]

\* extendedSetCalls.concat(finalNodes)
HoistAfter(setCalls, finalNodes) == finalNodes \o setCalls

Hoist(setCalls, finalNodes) == setCalls \o finalNodes

mergeSections(b, ext) ==
    LET extendedSections == ExtendedSections(ext)
        extendedSetCalls == ExtendedSetCalls(ext)
        final            == MapBase(b, ext, extendedSections, Len(b))
    IN  [result |-> Hoist(extendedSetCalls, final.nodes), ext |-> final.ext]

\* the token a reference denotes, read from the given arrays
Deref(ref, b, ext) == IF ref[1] = "base" THEN b[ref[2]] ELSE ext[ref[2]]

View(refs, b, ext) == [k \in 1..Len(refs) |-> Deref(refs[k], b, ext)]

(***************************************************************************)
(* SpecMerge                                                               *)
(***************************************************************************)
InitMerge ==
    /\ base \in SeqsUpTo(BaseTokens, MaxBase)
    /\ extended \in SeqsUpTo(ExtTokens, MaxExt)
    /\ extended0 = extended
    /\ merged = <<>>
    /\ firstMerged = <<>>
    /\ calls = 0
    /\ IdleArgs /\ IdlePath /\ IdleFrames

MergeSections ==
    /\ calls < MaxCalls
    /\ LET r == mergeSections(base, extended)
       IN  /\ merged' = r.result
           /\ extended' = r.ext
           /\ firstMerged' = IF calls = 0 THEN View(r.result, base, r.ext)
                             ELSE firstMerged
    /\ calls' = calls + 1
    /\ UNCHANGED <<base, extended0, argVars, pathVars, frameVars>>

NextMerge == MergeSections

SpecMerge == InitMerge /\ [][NextMerge]_vars

(***************************************************************************)
(* Claims about mergeSections (checked under SpecMerge)                    *)
(***************************************************************************)
IsTagNamed(t, name) == t.type \in {"tag", "e__tag"} /\ t.name = name

\* indices of extended's top-level set tokens / section tokens, as lexed
ExtSetIdx == {j \in 1..Len(extended0) : IsTagNamed(extended0[j], "set")}
ExtSecIdx == {j \in 1..Len(extended0) : IsTagNamed(extended0[j], "section")}
BaseSecIdx == {i \in 1..Len(base) : IsTagNamed(base[i], "section")}
NumSet == Cardinality(ExtSetIdx)

Ident(t) == Trim(t.jsArg)

StartsWithSuper(t) == Len(t.children) > 0 /\ IsTagNamed(t.children[1], "super")

\* the last-declared extended section with the given identifier
LastWith(id) ==
    CHOOSE j \in ExtSecIdx :
        /\ Ident(extended0[j]) = id
        /\ \A j2 \in ExtSecIdx : Ident(extended0[j2]) = id => j2 <= j

\* the token at result position k, as the result holds it now
MergedToken(k) == Deref(merged[k], base, extended)

C2_SuperMarkerRemoved ==
    calls = 1 =>
      \A i \in BaseSecIdx :
        \A j \in ExtSecIdx :
          ( /\ Ident(extended0[j]) = Ident(base[i])
            /\ j = LastWith(Ident(base[i]))
            /\ StartsWithSuper(extended0[j]) )
          => /\ MergedToken(NumSet + i).children
                  = base[i].children \o Tail(extended0[j].children)
             /\ \A c \in Range(MergedToken(NumSet + i).children) :
                  ~IsTagNamed(c, "super")

C4_SetOnlyFromBase ==
    calls >= 1 =>
      \A k \in 1..Len(merged) :
        IsTagNamed(MergedToken(k), "section") =>
          \A c \in Range(MergedToken(k).children) :
            IsTagNamed(c, "set") =>
              \E i \in BaseSecIdx :
                /\ Ident(base[i]) = Ident(MergedToken(k))
                /\ c \in Range(base[i].children)

\* C4 (amended): in the result, a set token is a child of a section only if
\* it was a child of the section with the same identifier in base or in
\* extended; a top-level set token of extended is never a child of a result
\* section and occurs in the result exactly once.
C4_SetHoistedNotDuplicated ==
    calls >= 1 =>
      /\ \A k \in 1..Len(merged) :
           IsTagNamed(MergedToken(k), "section") =>
             \A c \in Range(MergedToken(k).children) :
               IsTagNamed(c, "set") =>
                 \/ \E i \in BaseSecIdx :
                      /\ Ident(base[i]) = Ident(MergedToken(k))
                      /\ c \in Range(base[i].children)
                 \/ \E j \in ExtSecIdx :
                      /\ Ident(extended0[j]) = Ident(MergedToken(k))
                      /\ c \in Range(extended0[j].children)
      /\ \A j \in ExtSetIdx :
           /\ Cardinality({k \in 1..Len(merged) : merged[k] = ExtRef(j)}) = 1
           /\ \A k \in 1..Len(merged) :
                IsTagNamed(MergedToken(k), "section") =>
                  extended0[j] \notin Range(MergedToken(k).children)

C4_Witness ==
    /\ calls = 1
    /\ ExtSetIdx = {1} /\ ExtSecIdx = {2}
    /\ extended0[2].children = <<ExtSuper, ExtSet>>
    /\ Len(base) = 2
    /\ base[1] = TagToken("set", <<"x">>, <<>>, LayoutFile)
    /\ base[2].children = <<BaseSet, BaseRaw>>
    /\ MergedToken(3).children = <<BaseSet, BaseRaw, ExtSuper, ExtSet>>

\* C6: duplicate identifiers. When extended declares several sections whose
\* trimmed identifiers are equal, every base section with that (trimmed)
\* identifier is replaced by the last-declared one, and the earlier ones do
\* not occur in the result.
C6_LastDuplicateWins ==
    calls >= 1 =>
      \A j1, j2 \in ExtSecIdx :
        (j1 < j2 /\ Ident(extended0[j1]) = Ident(extended0[j2])) =>
          /\ \A k \in 1..Len(merged) : merged[k] # ExtRef(j1)
          /\ \A i \in BaseSecIdx :
               Ident(base[i]) = Ident(extended0[j2]) =>
                 merged[NumSet + i] = ExtRef(LastWith(Ident(base[i])))

C6_Witness ==
    /\ calls = 1
    /\ Len(extended0) = 2 /\ ExtSecIdx = {1, 2}
    /\ extended0[1].jsArg = ArgA /\ ~StartsWithSuper(extended0[1])
    /\ extended0[2].jsArg = ArgAPadded /\ StartsWithSuper(extended0[2])
    /\ Len(base) = 2 /\ BaseSecIdx = {1, 2}
    /\ base[1].jsArg = ArgAPadded /\ base[2].jsArg = ArgA
    /\ merged = <<ExtRef(2), ExtRef(2)>>

\* C10 (as claimed): a merge leaves every token of extended as it was, and a
\* second merge of the same arrays returns the tokens the first returned.
C10_InputsUnmodified ==
    /\ calls >= 1 => extended = extended0
    /\ calls >= 2 => View(merged, base, extended) = firstMerged

(***************************************************************************)
(* Expressions (the parser's syntax tree, as the utils read it)            *)
(***************************************************************************)
MaxArgs     == 3   \* elements in a SequenceExpression
MaxSeqCalls == 2   \* successive parseSequenceExpression calls on one expression

Loc(line, column) == [start |-> [line |-> line, column |-> column]]

Literal(raw, loc) == [type |-> "Literal", raw |-> raw, loc |-> loc]
Identifier(name, loc) == [type |-> "Identifier", name |-> name, loc |-> loc]
AssignmentExpression(left, right, loc) ==
    [type |-> "AssignmentExpression", left |-> left, right |-> right, loc |-> loc]
ObjectExpression(properties, loc) ==
    [type |-> "ObjectExpression", properties |-> properties, loc |-> loc]
SequenceExpression(expressions, loc) ==
    [type |-> "SequenceExpression", expressions |-> expressions, loc |-> loc]
\* what reading past the end of an array, or shift() on an empty one, yields
Undefined == [type |-> "undefined"]

Locs == {Loc(1, 0), Loc(2, 4)}

\* the elements a sequence is built from
Elements ==
    { Literal("'card'", Loc(1, 1)),
      Identifier("user", Loc(1, 1)),
      AssignmentExpression(Identifier("title", Loc(1, 9)),
                           Literal("'hi'", Loc(1, 17)), Loc(1, 9)),
      ObjectExpression(<<[key   |-> Identifier("title", Loc(1, 11)),
                          value |-> Literal("'hi'", Loc(1, 18))]>>, Loc(1, 9)) }

SequenceExpressions ==
    {SequenceExpression(es, loc) :
        es \in {e \in SeqsUpTo(Elements, MaxArgs) : Len(e) >= 2}, loc \in Locs}

Expressions ==
    {Literal("'card'", loc) : loc \in Locs}
    \cup {Identifier("user", loc) : loc \in Locs}
    \cup SequenceExpressions

Filenames == {"foo.edge", "bar.edge"}

\* the third argument of parseAsKeyValuePair
ValueExpressions ==
    { <<>>, <<"Literal">>, <<"Identifier", "ObjectExpression">> }

(***************************************************************************)
(* parser.statementToString: the expression compiler's rendering to code   *)
(* text, here a sequence of text pieces. Handed undefined, it throws.      *)
(***************************************************************************)
RECURSIVE statementToString(_)
RECURSIVE RenderProperties(_, _)
RenderProperties(properties, n) ==
    IF n = 0 THEN <<>>
    ELSE RenderProperties(properties, n - 1)
         \o (IF n > 1 THEN <<", ">> ELSE <<>>)
         \o <<properties[n].key.name, ": ">>
         \o statementToString(properties[n].value)

statementToString(e) ==
    CASE e.type = "Literal" -> <<e.raw>>
      [] e.type = "Identifier" -> <<"ctx.resolve('", e.name, "')">>
      [] e.type = "AssignmentExpression" ->
            statementToString(e.left) \o <<" = ">> \o statementToString(e.right)
      [] e.type = "ObjectExpression" ->
            <<"{ ">> \o RenderProperties(e.properties, Len(e.properties)) \o <<" }">>
      [] OTHER -> <<"?">>

(***************************************************************************)
(* Outcomes of a call: a returned value or a thrown error                  *)
(***************************************************************************)
Returned(value) ==
    [status |-> "return", value |-> value, code |-> "", line |-> 0, col |-> 0,
     filename |-> ""]
EdgeError(code, expr, file) ==
    [status |-> "throw", value |-> <<>>, code |-> code,
     line |-> expr.loc.start.line, col |-> expr.loc.start.column,
     filename |-> file]
TypeError ==
    [status |-> "throw", value |-> <<>>, code |-> "TypeError", line |-> 0,
     col |-> 0, filename |-> ""]

(***************************************************************************)
(* ObjectifyString                                                         *)
(***************************************************************************)
\* add(key, value): this.obj += this.obj.length ? `, k: v` : `k: v`
ObjectifyAdd(obj, key, value) ==
    IF Len(obj) > 0 THEN obj \o <<", ">> \o key \o <<": ">> \o value
    ELSE obj \o key \o <<": ">> \o value

\* flush(): `{ ${this.obj} }`
ObjectifyFlush(obj) == <<"{ ">> \o obj \o <<" }">>

(***************************************************************************)
(* allowExpressions: TRUE when the call throws E_UNALLOWED_EXPRESSION      *)
(***************************************************************************)
allowExpressionsThrows(expr, expressions) ==
    expr.type \notin Range(expressions)

(***************************************************************************)
(* parseSequenceExpression                                                 *)
(***************************************************************************)
\* arg.properties.forEach(prop => objectifyString.add(key, value))
RECURSIVE AddProperties(_, _, _)
AddProperties(obj, properties, n) ==
    IF n = 0 THEN obj
    ELSE ObjectifyAdd(AddProperties(obj, properties, n - 1),
                      statementToString(properties[n].key),
                      statementToString(properties[n].value))

\* expression.expressions.forEach(arg => ...), over elements 1..n
RECURSIVE AddArguments(_, _)
AddArguments(args, n) ==
    IF n = 0 THEN <<>>
    ELSE
      LET obj == AddArguments(args, n - 1)
          arg == args[n]
      IN  IF arg.type = "ObjectExpression"
          THEN AddProperties(obj, arg.properties, Len(arg.properties))
          ELSE IF arg.type = "AssignmentExpression"
          THEN ObjectifyAdd(obj, <<arg.left.name>>, statementToString(arg.right))
          ELSE obj

\* expression.expressions.shift(): the element removed, and what is left
Shift(expressions) ==
    [removed |-> IF Len(expressions) = 0 THEN Undefined ELSE Head(expressions),
     rest    |-> IF Len(expressions) = 0 THEN <<>> ELSE Tail(expressions)]

\* the outcome of the call and the expression object as the call leaves it
parseSequenceExpression(expr) ==
    IF expr.type = "SequenceExpression"
    THEN LET sh == Shift(expr.expressions)
         IN  IF sh.removed = Undefined
             THEN [outcome |-> TypeError, expression |-> expr]
             ELSE [outcome |-> Returned(
                       <<statementToString(sh.removed),
                         ObjectifyFlush(AddArguments(sh.rest, Len(sh.rest)))>>),
                   expression |-> [expr EXCEPT !.expressions = sh.rest]]
    ELSE [outcome |-> Returned(<<statementToString(expr), <<"{}">>>>),
          expression |-> expr]

(***************************************************************************)
(* parseAsKeyValuePair                                                     *)
(***************************************************************************)
\* the most elements a slot's sequence may have
MaxSlotArguments == 2

TooManyArgumentsOffByOne(expr) == Len(expr.expressions) > MaxSlotArguments + 1

TooManyArguments(expr) == Len(expr.expressions) > MaxSlotArguments

\* expression.expressions[k], k counted from 1: undefined past the end
ElementAt(expr, k) ==
    IF k <= Len(expr.expressions) THEN expr.expressions[k] ELSE Undefined

\* reading .type or .raw of undefined throws a TypeError, and so does
\* rendering undefined
parseAsKeyValuePair(expr, file, valueExpressions) ==
    IF allowExpressionsThrows(expr, <<"Literal", "SequenceExpression">>)
    THEN EdgeError("E_UNALLOWED_EXPRESSION", expr, file)
    ELSE IF expr.type = "Literal"
    THEN Returned(<<<<expr.raw>>, <<"null">>>>)
    ELSE IF TooManyArguments(expr)
    THEN EdgeError("E_MAX_ARGUMENTS", expr, file)
    ELSE IF ElementAt(expr, 1) = Undefined
    THEN TypeError
    ELSE IF allowExpressionsThrows(ElementAt(expr, 1), <<"Literal">>)
    THEN EdgeError("E_UNALLOWED_EXPRESSION", ElementAt(expr, 1), file)
    ELSE IF Len(valueExpressions) > 0 /\ ElementAt(expr, 2) = Undefined
    THEN TypeError
    ELSE IF Len(valueExpressions) > 0
            /\ allowExpressionsThrows(ElementAt(expr, 2), valueExpressions)
    THEN EdgeError("E_UNALLOWED_EXPRESSION", ElementAt(expr, 2), file)
    ELSE IF ElementAt(expr, 2) = Undefined
    THEN TypeError
    ELSE Returned(<<<<ElementAt(expr, 1).raw>>,
                    statementToString(ElementAt(expr, 2))>>)

(***************************************************************************)
(* SpecArgs                                                                *)
(***************************************************************************)
NoCall == [status |-> "none"]

InitArgs ==
    /\ filename \in Filenames
    /\ expression \in Expressions
    /\ expression0 = expression
    /\ seqResult = NoCall
    /\ firstSeqResult = NoCall
    /\ seqCalls = 0
    /\ pairCall = [outcome |-> NoCall]
    /\ IdleMerge /\ IdlePath /\ IdleFrames

ParseSequenceExpression ==
    /\ seqCalls < MaxSeqCalls
    /\ LET r == parseSequenceExpression(expression)
       IN  /\ seqResult' = r.outcome
           /\ expression' = r.expression
           /\ firstSeqResult' = IF seqCalls = 0 THEN r.outcome ELSE firstSeqResult
    /\ seqCalls' = seqCalls + 1
    /\ UNCHANGED <<filename, expression0, pairCall, mergeVars, pathVars, frameVars>>

ParseAsKeyValuePair ==
    /\ \E valueExpressions \in ValueExpressions :
         pairCall' = [expression       |-> expression,
                      valueExpressions |-> valueExpressions,
                      outcome |-> parseAsKeyValuePair(expression, filename,
                                                      valueExpressions)]
    /\ UNCHANGED <<filename, expression, expression0, seqResult, firstSeqResult,
                   seqCalls, mergeVars, pathVars, frameVars>>

NextArgs == ParseSequenceExpression \/ ParseAsKeyValuePair

SpecArgs == InitArgs /\ [][NextArgs]_vars

(***************************************************************************)
(* Claims about the tag-argument normalizer (checked under SpecArgs)       *)
(***************************************************************************)
PairCalled == pairCall.outcome.status # "none"

\* C7: parseAsKeyValuePair on a Sequence expression with more than 2
\* elements throws E_MAX_ARGUMENTS carrying the expression's line and column
\* and the compiler's filename, whatever the kinds of its elements and
\* whatever the allowed value kinds are; no pair is returned.
C7_MaxArguments ==
    ( /\ PairCalled
      /\ pairCall.expression.type = "SequenceExpression"
      /\ Len(pairCall.expression.expressions) > 2 )
    => /\ pairCall.outcome.status = "throw"
       /\ pairCall.outcome.code = "E_MAX_ARGUMENTS"
       /\ pairCall.outcome.line = pairCall.expression.loc.start.line
       /\ pairCall.outcome.col = pairCall.expression.loc.start.column
       /\ pairCall.outcome.filename = filename

\* a 3-element sequence whose first element is no Literal and whose second
\* element is not among the allowed value kinds: both later checks would throw
C7_Witness ==
    /\ PairCalled
    /\ pairCall.expression.type = "SequenceExpression"
    /\ Len(pairCall.expression.expressions) = 3
    /\ pairCall.expression.expressions[1].type = "Identifier"
    /\ pairCall.expression.expressions[2].type = "AssignmentExpression"
    /\ pairCall.valueExpressions = <<"Literal">>
    /\ pairCall.outcome.code = "E_MAX_ARGUMENTS"

\* C8 (as claimed): parseSequenceExpression leaves its input expression as it
\* was, and a second call on the same Sequence expression returns what the
\* first returned, the name rendered from the original first element.
C8_Stateless ==
    /\ seqCalls >= 1 => expression = expression0
    /\ (seqCalls >= 2 /\ expression0.type = "SequenceExpression") =>
         /\ seqResult = firstSeqResult
         /\ seqResult.status = "return"
         /\ seqResult.value[1] = statementToString(expression0.expressions[1])

(***************************************************************************)
(* extractDiskAndTemplateName                                              *)
(***************************************************************************)
MaxPieces == 6   \* pieces a template reference is put together from

\* path.sep
sep == <<"/">>

DiskSeparator == <<":", ":">>
EdgeMarker    == <<".", "e", "d", "g", "e">>
DefaultDisk   == <<"d", "e", "f", "a", "u", "l", "t">>
EdgeExt       == <<"e", "d", "g", "e">>

Pieces == { DiskSeparator, <<":">>, <<".">>, EdgeMarker, <<"a">> }

RECURSIVE Flatten(_)
Flatten(ps) == IF ps = <<>> THEN <<>> ELSE Head(ps) \o Flatten(Tail(ps))

References == {Flatten(ps) : ps \in SeqsUpTo(Pieces, MaxPieces)}

StartsWith(s, prefix) ==
    Len(s) >= Len(prefix) /\ SubSeq(s, 1, Len(prefix)) = prefix

\* String.prototype.split(separator): cut at every occurrence, left to right
RECURSIVE SplitFrom(_, _, _)
SplitFrom(s, separator, current) ==
    IF s = <<>> THEN <<current>>
    ELSE IF StartsWith(s, separator)
    THEN <<current>> \o SplitFrom(SubSeq(s, Len(separator) + 1, Len(s)), separator, <<>>)
    ELSE SplitFrom(Tail(s), separator, Append(current, Head(s)))

Split(s, separator) == SplitFrom(s, separator, <<>>)

\* Array.prototype.join(separator)
RECURSIVE Join(_, _)
Join(parts, separator) ==
    IF Len(parts) = 0 THEN <<>>
    ELSE IF Len(parts) = 1 THEN parts[1]
    ELSE parts[1] \o separator \o Join(Tail(parts), separator)

\* template.replace(/\./, sep): a regular expression without the g flag
RECURSIVE ReplaceEveryDot(_, _)
ReplaceEveryDot(s, by) ==
    IF s = <<>> THEN <<>>
    ELSE IF Head(s) = "." THEN by \o ReplaceEveryDot(Tail(s), by)
    ELSE <<Head(s)>> \o ReplaceEveryDot(Tail(s), by)

RECURSIVE ReplaceDot(_, _)
ReplaceDot(s, by) ==
    IF s = <<>> THEN <<>>
    ELSE IF Head(s) = "." THEN by \o Tail(s)
    ELSE <<Head(s)>> \o ReplaceDot(Tail(s), by)

extractDiskAndTemplateName(path) ==
    LET parts    == Split(path, DiskSeparator)
        noDisk   == Len(parts) = 1
        disk     == IF noDisk THEN DefaultDisk ELSE parts[1]
        rest     == IF noDisk THEN <<parts[1]>> ELSE Tail(parts)
        pieces   == Split(Join(rest, DiskSeparator), EdgeMarker)
        template == pieces[1]
        \* ext || 'edge': undefined and the empty string both give 'edge'
        ext      == IF Len(pieces) < 2 \/ pieces[2] = <<>> THEN EdgeExt
                    ELSE pieces[2]
    IN  <<disk, ReplaceDot(template, sep) \o <<".">> \o ext>>

(***************************************************************************)
(* SpecPath                                                                *)
(***************************************************************************)
InitPath ==
    /\ templatePath \in References
    /\ extracted = <<>>
    /\ IdleMerge /\ IdleArgs /\ IdleFrames

ExtractDiskAndTemplateName ==
    /\ extracted = <<>>
    /\ extracted' = extractDiskAndTemplateName(templatePath)
    /\ UNCHANGED <<templatePath, mergeVars, argVars, frameVars>>

NextPath == ExtractDiskAndTemplateName

SpecPath == InitPath /\ [][NextPath]_vars

(***************************************************************************)
(* Claims about the path resolver (checked under SpecPath)                 *)
(***************************************************************************)
\* positions at which `what` occurs in s
Occurrences(s, what) ==
    {i \in 1..Len(s) : i + Len(what) - 1 <= Len(s)
                       /\ SubSeq(s, i, i + Len(what) - 1) = what}

Least(S) == CHOOSE i \in S : \A k \in S : i <= k

\* the reference cut at its first `::`
FirstSeparator == Least(Occurrences(templatePath, DiskSeparator))
HasDisk == Occurrences(templatePath, DiskSeparator) # {}
DiskPart ==
    IF HasDisk THEN SubSeq(templatePath, 1, FirstSeparator - 1) ELSE DefaultDisk
TemplatePart ==
    IF HasDisk THEN SubSeq(templatePath, FirstSeparator + 2, Len(templatePath))
    ELSE templatePath

\* s with the character at position i replaced by `by`
ReplaceAt(s, i, by) == SubSeq(s, 1, i - 1) \o by \o SubSeq(s, i + 1, Len(s))

FirstDotReplaced(s) ==
    IF Occurrences(s, <<".">>) = {} THEN s
    ELSE ReplaceAt(s, Least(Occurrences(s, <<".">>)), sep)

\* C9: the reference is cut at its first `::` only: the disk name is the text
\* before it ("default" when there is none) and the template part is all the
\* text after it, later `::` included; when the template part names no
\* extension, the file path is the template part with its first dot alone
\* replaced by the path separator, followed by `.edge`.
C9_FirstSeparatorFirstDot ==
    extracted # <<>> =>
      /\ extracted[1] = DiskPart
      /\ Occurrences(TemplatePart, EdgeMarker) = {} =>
           extracted[2] = FirstDotReplaced(TemplatePart) \o EdgeMarker

\* "a::..::a" gives ("a", "/.::a.edge")
C9_Witness ==
    /\ templatePath = <<"a", ":", ":", ".", ".", ":", ":", "a">>
    /\ extracted = << <<"a">>,
                      <<"/", ".", ":", ":", "a", ".", "e", "d", "g", "e">> >>

(***************************************************************************)
(* The runtime resolution context (ctx) and the compiled each-tag template *)
(***************************************************************************)
MaxUsers == 3   \* elements of the `users` collection

\* values a template datum can take
Absent == [absent |-> TRUE]
User(username) == [absent |-> FALSE, username |-> username]

Users == { User(<<"a">>), User(<<"<", "b">>), Absent }

\* ctx.escape: markup characters replaced by their entity forms
EscapeChar(c) ==
    CASE c = "&" -> <<"&amp;">>
      [] c = "<" -> <<"&lt;">>
      [] c = ">" -> <<"&gt;">>
      [] c = "\"" -> <<"&quot;">>
      [] c = "'" -> <<"&#x27;">>
      [] OTHER -> <<c>>

RECURSIVE escape(_)
escape(text) ==
    IF text = <<>> THEN <<>> ELSE EscapeChar(Head(text)) \o escape(Tail(text))

\* ctx.newFrame / ctx.removeFrame / ctx.setOnFrame on a frame stack
EmptyFrame == [n \in {} |-> Absent]

newFrame(stack) == Append(stack, EmptyFrame)

removeFrame(stack) == SubSeq(stack, 1, Len(stack) - 1)

setOnFrame(stack, name, value) ==
    [stack EXCEPT ![Len(stack)] =
        [n \in DOMAIN stack[Len(stack)] \cup {name} |->
            IF n = name THEN value ELSE stack[Len(stack)][n]]]

\* ctx.resolve: the binding of the topmost frame that binds the name
Binds(stack, name) == {k \in 1..Len(stack) : name \in DOMAIN stack[k]}

resolve(stack, name) ==
    IF Binds(stack, name) = {} THEN Absent
    ELSE stack[CHOOSE k \in Binds(stack, name) :
                  \A k2 \in Binds(stack, name) : k2 <= k][name]

\* ctx.loop over a sequence: the metadata handed to the body for element i
\* (1-based here; index and key are 0-based)
LoopMeta(collection, i) ==
    [index |-> i - 1, key |-> i - 1, isFirst |-> i = 1,
     isLast |-> i = Len(collection), total |-> Len(collection)]

(***************************************************************************)
(* SpecFrames: one run of the compiled template against a context          *)
(***************************************************************************)
InitFrames ==
    /\ \E users \in SeqsUpTo(Users, MaxUsers) :
         frames = <<[n \in {"users"} |-> users]>>
    /\ out = <<>>
    /\ pc = "entry"
    /\ loopIdx = 0
    /\ entryDepth = 1
    /\ IdleMerge /\ IdleArgs /\ IdlePath

\* let out = ''; ctx.loop(ctx.resolve('users'), ...) is entered
Enter ==
    /\ pc = "entry"
    /\ out' = <<>>
    /\ entryDepth' = Len(frames)
    /\ loopIdx' = 0
    /\ pc' = "loop"
    /\ UNCHANGED <<frames, mergeVars, argVars, pathVars>>

\* ctx.loop: call the body for the next element, or return when none is left
LoopStep ==
    /\ pc = "loop"
    /\ IF loopIdx < Len(frames[1]["users"])
       THEN loopIdx' = loopIdx + 1 /\ pc' = "newFrame"
       ELSE loopIdx' = loopIdx /\ pc' = "return"
    /\ UNCHANGED <<frames, out, entryDepth, mergeVars, argVars, pathVars>>

\* ctx.newFrame()
NewFrame ==
    /\ pc = "newFrame"
    /\ frames' = newFrame(frames)
    /\ pc' = "setUser"
    /\ UNCHANGED <<out, loopIdx, entryDepth, mergeVars, argVars, pathVars>>

\* ctx.setOnFrame('user', user)
SetUser ==
    /\ pc = "setUser"
    /\ frames' = setOnFrame(frames, "user", frames[1]["users"][loopIdx])
    /\ pc' = "setLoop"
    /\ UNCHANGED <<out, loopIdx, entryDepth, mergeVars, argVars, pathVars>>

\* ctx.setOnFrame('$loop', loop)
SetLoop ==
    /\ pc = "setLoop"
    /\ frames' = setOnFrame(frames, "$loop", LoopMeta(frames[1]["users"], loopIdx))
    /\ pc' = "setKey"
    /\ UNCHANGED <<out, loopIdx, entryDepth, mergeVars, argVars, pathVars>>

\* ctx.setOnFrame('key', loop.key)
SetKey ==
    /\ pc = "setKey"
    /\ frames' = setOnFrame(frames, "key", LoopMeta(frames[1]["users"], loopIdx).key)
    /\ pc' = "hello"
    /\ UNCHANGED <<out, loopIdx, entryDepth, mergeVars, argVars, pathVars>>

\* out += '  - Hello '
AppendHello ==
    /\ pc = "hello"
    /\ out' = out \o <<"  - Hello ">>
    /\ pc' = "username"
    /\ UNCHANGED <<frames, loopIdx, entryDepth, mergeVars, argVars, pathVars>>

\* out += `${ctx.escape(ctx.resolve('user').username)}`: reading .username of
\* an absent value throws, and the error leaves the body, ctx.loop and the
\* template function
AppendUsername ==
    /\ pc = "username"
    /\ IF resolve(frames, "user").absent
       THEN out' = out /\ pc' = "threw"
       ELSE /\ out' = out \o escape(resolve(frames, "user").username)
            /\ pc' = "removeFrame"
    /\ UNCHANGED <<frames, loopIdx, entryDepth, mergeVars, argVars, pathVars>>

\* ctx.removeFrame()
RemoveFrame ==
    /\ pc = "removeFrame"
    /\ frames' = removeFrame(frames)
    /\ pc' = "loop"
    /\ UNCHANGED <<out, loopIdx, entryDepth, mergeVars, argVars, pathVars>>

\* return out
Return ==
    /\ pc = "return"
    /\ pc' = "returned"
    /\ UNCHANGED <<frames, out, loopIdx, entryDepth, mergeVars, argVars, pathVars>>

NextFrames ==
    \/ Enter \/ LoopStep \/ NewFrame \/ SetUser \/ SetLoop \/ SetKey
    \/ AppendHello \/ AppendUsername \/ RemoveFrame \/ Return

SpecFrames == InitFrames /\ [][NextFrames]_vars

(***************************************************************************)
(* Claims about the compiled each-loop (checked under SpecFrames)          *)
(***************************************************************************)
\* C5 (as claimed): on every exit from the template function, by return or
\* by a thrown error, the frame stack is as deep as it was at entry: every
\* frame a loop body pushed has been removed.
C5_FramesBalanced ==
    pc \in {"returned", "threw"} => Len(frames) = entryDepth

====
